---- MODULE Spec2Model ----
(***************************************************************************)
(* Model of "Random Variables Simulation": the inverse-transform samplers  *)
(* (binomial.py, geometric.py, exponential.py), the acceptance-rejection   *)
(* sampler (gamma.py) and the savings simulation with its sequential       *)
(* estimator (invesment_simulation.py).                                    *)
(*                                                                         *)
(* One behaviour is one call: Init picks the function called and its       *)
(* arguments, the actions execute its body, one loop iteration per step.   *)
(*                                                                         *)
(* Python floats are modelled as binary floating-point numbers of reduced  *)
(* precision: a float is an integer count of units of 2^-EBits, and every  *)
(* arithmetic result is rounded to SigBits significant bits, ties to even  *)
(* (binary64 has 53 significant bits; the rounding behaviour is the same). *)
(***************************************************************************)
EXTENDS Integers, Sequences, FiniteSets

VARIABLES fn, pc, frame, ret, calls

vars == <<fn, pc, frame, ret, calls>>

(***************************************************************************)
(* Bounds of the model.                                                    *)
(***************************************************************************)
SigBits == 5        \* significant bits of a float (53 in binary64)
EBits == 12         \* a float is a multiple of 2^-EBits
MaxN == 4           \* largest trial count n of the binomial calls
MaxX == 11          \* the geometric walk is followed up to x = MaxX
MaxMonths == 3      \* largest horizon of the path simulator calls
MaxSamples == 5     \* the estimator is followed up to MaxSamples samples

One == 2^EBits

(***************************************************************************)
(* Floating-point arithmetic.                                              *)
(***************************************************************************)
Abs(a) == IF a < 0 THEN -a ELSE a

Sign(a) == IF a < 0 THEN -1 ELSE 1

\* a / b (a >= 0, b > 0) rounded to the nearest integer, ties to even
RoundHalfEven(a, b) ==
    LET f == a \div b
        r == a % b
    IN  IF 2 * r < b THEN f
        ELSE IF 2 * r > b THEN f + 1
        ELSE IF f % 2 = 0 THEN f ELSE f + 1

RECURSIVE ExtraBits(_)
\* how many low bits an integer q >= 0 has beyond SigBits significant bits
ExtraBits(q) == IF q < 2^SigBits THEN 0 ELSE 1 + ExtraBits(q \div 2)

\* the float nearest to num / den units (den > 0)
Fl(num, den) ==
    LET a == Abs(num)
        k == ExtraBits(a \div den)
    IN  Sign(num) * RoundHalfEven(a, den * 2^k) * 2^k

RECURSIVE TrailingZeros(_)
TrailingZeros(a) ==
    IF a = 0 \/ a % 2 # 0 THEN 0 ELSE 1 + TrailingZeros(a \div 2)

\* a = OddPart(a) * 2^TrailingZeros(a)
OddPart(a) == a \div 2^TrailingZeros(Abs(a))

\* the float nearest to m * 2^s units (|m| < 2^31, so below 2^-31 it is zero)
FlExp(m, s) ==
    IF s >= 0 THEN Fl(m * 2^s, 1)
    ELSE IF s < -30 THEN 0
    ELSE Fl(m, 2^(-s))

IntToFloat(c) == c * One

Add(a, b) == Fl(a + b, 1)

Sub(a, b) == Fl(a - b, 1)

Mul(a, b) ==
    FlExp(OddPart(a) * OddPart(b),
          TrailingZeros(Abs(a)) + TrailingZeros(Abs(b)) - EBits)

\* a ** k for an integer k >= 0
Pow(a, k) ==
    IF k = 0 THEN One
    ELSE FlExp(OddPart(a)^k, k * (TrailingZeros(Abs(a)) - EBits) + EBits)

\* a / b, b # 0
Div(a, b) ==
    LET s == TrailingZeros(Abs(a)) - TrailingZeros(Abs(b)) + EBits
        m == Sign(b) * OddPart(a)
        d == Abs(OddPart(b))
    IN  IF s >= 0 THEN Fl(m * 2^s, d) ELSE Fl(m, d * 2^(-s))

(***************************************************************************)
(* random(): a multiple of 2^-SigBits in [0, 1).                           *)
(***************************************************************************)
Uniform == {k * (One \div 2^SigBits) : k \in 0 .. (2^SigBits - 1)}

(***************************************************************************)
(* binomial.py                                                             *)
(***************************************************************************)
RECURSIVE comb(_, _)
comb(n, k) ==
    IF k < 0 \/ k > n THEN 0
    ELSE IF k = 0 THEN 1
    ELSE (comb(n, k - 1) * (n - k + 1)) \div k

\* the exponent of 1 - p taken as n instead of n - x
binomial_mass_n(x, n, p) ==
    IF 0 <= x /\ x <= n
    THEN Mul(Mul(IntToFloat(comb(n, x)), Pow(p, x)), Pow(Sub(One, p), n))
    ELSE 0

binomial_mass(x, n, p) ==
    IF 0 <= x /\ x <= n
    THEN Mul(Mul(IntToFloat(comb(n, x)), Pow(p, x)), Pow(Sub(One, p), n - x))
    ELSE 0

(***************************************************************************)
(* geometric.py                                                            *)
(***************************************************************************)
geometric_mass(x, p) ==
    IF x >= 1 THEN Mul(p, Pow(Sub(One, p), x - 1)) ELSE 0

(***************************************************************************)
(* math.log, math.exp and float ** (1/6).  The library results are taken   *)
(* from values held to QBits fractional bits and then rounded to a float.  *)
(***************************************************************************)
QBits == 15

QOne == 2^QBits

\* ln 2 to QBits fractional bits
Ln2Q == 22713

\* 2^(-r/6), r = 0 .. 5, to QBits fractional bits
SixthRootsQ == <<32768, 29193, 26008, 23170, 20643, 18390>>

IsPow2(v) == v > 0 /\ OddPart(v) = 1

\* j such that v = 2^-j
NegLog2(v) == EBits - TrailingZeros(v)

\* math.log(v), for v = 2^-j (j >= 0)
Log(v) == -Fl(NegLog2(v) * Ln2Q, 2^(QBits - EBits))

RECURSIVE ExpTerm(_, _)
\* r^i / i! to QBits fractional bits, 0 <= r < ln 2
ExpTerm(r, i) == IF i = 0 THEN QOne ELSE (ExpTerm(r, i - 1) * r) \div (i * QOne)

RECURSIVE ExpSeries(_, _)
\* the Taylor series of e^-r up to the term of order i
ExpSeries(r, i) ==
    IF i = 0 THEN QOne
    ELSE ExpSeries(r, i - 1) + (IF i % 2 = 0 THEN 1 ELSE -1) * ExpTerm(r, i)

\* math.exp(y), y <= 0: e^y = 2^-k * e^-r with -y = k ln 2 + r
Exp(y) ==
    LET a == (-y) * 2^(QBits - EBits)
        k == a \div Ln2Q
        r == a % Ln2Q
    IN  IF k > 30 - QBits THEN 0 ELSE Fl(ExpSeries(r, 9) * One, QOne * 2^k)

\* v ** (1/6), for v = 2^-j (j >= 0)
PowSixth(v) ==
    LET j == NegLog2(v)
    IN  Fl(SixthRootsQ[(j % 6) + 1] * One, QOne * 2^(j \div 6))

\* a / b for Python ints a, b (b # 0)
TrueDiv(a, b) == Sign(b) * Fl(a * One, Abs(b))

\* random() values u for which 1 - u is a power of two
UniformPow2 == {One - One \div 2^j : j \in 0 .. SigBits}

(***************************************************************************)
(* exponential.py                                                          *)
(***************************************************************************)
\* -log(1 - u)/lambda_, lambda_ # 0
exp_dist_inverse(u, lambda_) == Div(-Log(Sub(One, u)), lambda_)

(***************************************************************************)
(* gamma.py                                                                *)
(***************************************************************************)
Half == TrueDiv(1, 2)

f(x) == Mul(Mul(Half, Pow(x, 2)), Exp(-x))

g(x) == Mul(Half, Exp(Div(-x, IntToFloat(2))))

\* the envelope constant taken as 8*exp(-2)
EnvelopeHalved == Mul(IntToFloat(8), Exp(-IntToFloat(2)))

\* line 21
EnvelopeC == Mul(IntToFloat(16), Exp(-IntToFloat(2)))

\* line 27: f(num_sim)/(g(num_sim)*c)
AcceptanceThreshold(num_sim, c) == Div(f(num_sim), Mul(g(num_sim), c))

\* line 24: num_sim = exp_simulation(1/2), by the uniform draw it consumes
GammaProposal == [u \in UniformPow2 |-> exp_dist_inverse(u, Half)]

\* line 27: the threshold U is compared with, by the draw behind num_sim
GammaThreshold ==
    [u \in UniformPow2 |-> AcceptanceThreshold(GammaProposal[u], EnvelopeC)]

(***************************************************************************)
(* invesment_simulation.py                                                 *)
(***************************************************************************)
beta_dist_1_6_inverse(u) ==
    IF 0 <= u /\ u <= One THEN Sub(One, PowSixth(Sub(One, u))) ELSE 0

\* lines 37, 55: exp_simulation(1/1000)
SavingsRate == TrueDiv(1, 1000)

\* the return applied to the balance before the contribution is added
CompoundBeforeDeposit(accumulated, saved, rate_of_return) ==
    Add(Mul(accumulated, Add(One, rate_of_return)), saved)

\* the return subtracted instead of added
CompoundLosing(accumulated, saved, rate_of_return) ==
    Mul(Add(accumulated, saved), Sub(One, rate_of_return))

\* line 57
Compound(accumulated, saved, rate_of_return) ==
    Mul(Add(accumulated, saved), Add(One, rate_of_return))

\* line 43: generated = (valor_acumulado + ahorrado)*return_
Generated(valor_acumulado, ahorrado, return_) ==
    Mul(Add(valor_acumulado, ahorrado), return_)

\* the month's return credited before the month's deposit
ReinvestBeforeDeposit(valor_acumulado, ahorrado, return_) ==
    Add(Mul(valor_acumulado, Add(One, return_)), ahorrado)

\* line 46: valor_acumulado = (valor_acumulado + ahorrado)*(1 + return_)
Reinvest(valor_acumulado, ahorrado, return_) ==
    Mul(Add(valor_acumulado, ahorrado), Add(One, return_))

RECURSIVE PathAfter(_, _)
\* lines 52-57: accumulated after h iterations over the draws log[1 .. 2h]
PathAfter(log, h) ==
    IF h = 0 THEN 0
    ELSE Compound(PathAfter(log, h - 1), log[2 * h - 1][2], log[2 * h][2])

(***************************************************************************)
(* The sequential estimator works on terminal values in thousands of       *)
(* pesos, in exact arithmetic: the mean is the fraction <<sum, n>> and a   *)
(* half-width e is held as the fraction <<a, b>> with e^2 = a / b.         *)
(***************************************************************************)
\* line 69: the target 5000
ErrorTarget == 5

\* line 67: the initial error 10000
InitialError == 10

RECURSIVE Sum(_)
Sum(xs) == IF xs = <<>> THEN 0 ELSE Head(xs) + Sum(Tail(xs))

RECURSIVE SumSq(_)
SumSq(xs) == IF xs = <<>> THEN 0 ELSE Head(xs) * Head(xs) + SumSq(Tail(xs))

\* line 76: np.mean
Mean(xs) == <<Sum(xs), Len(xs)>>

\* line 77: np.std (population), squared: (n sum(x^2) - sum(x)^2) / n^2
Variance(xs) == <<Len(xs) * SumSq(xs) - Sum(xs) * Sum(xs), Len(xs) * Len(xs)>>

\* line 79: z * s / (n ** 0.5), squared
HalfWidth(z, xs) == <<z * z * Variance(xs)[1], Variance(xs)[2] * Len(xs)>>

\* the half-width formula applied from the first sample on
NextErrorUnguarded(z, xs, error) == HalfWidth(z, xs)

\* line 79: error = z * s / (n ** 0.5) if n > 1 else error
NextError(z, xs, error) == IF Len(xs) > 1 THEN HalfWidth(z, xs) ELSE error

\* e > t, for a half-width e and a number t >= 0
Exceeds(e, t) == e[1] > t * t * e[2]

\* the loop test with >= in place of >
KeepSamplingAtTarget(error) == error[1] >= ErrorTarget * ErrorTarget * error[2]

\* line 69: error > 5000
KeepSampling(error) == Exceeds(error, ErrorTarget)

(***************************************************************************)
(* Arguments of the calls.                                                 *)
(***************************************************************************)
Eighths == {k * (One \div 8) : k \in 0 .. 8}

\* probabilities passed by callers: [0, 1] in eighths, and two invalid ones
PArgs == Eighths \cup {-(One \div 4), 5 * (One \div 4)}

NArgs == (-1) .. MaxN

ValidP(p) == 0 <= p /\ p <= One

Pending == [kind |-> "pending", val |-> 0]

Returned(v) == [kind |-> "value", val |-> v]

ReturnedNone == [kind |-> "None", val |-> 0]

\* the call ended with the exception e
Raised(e) == [kind |-> e, val |-> 0]

InitBinomial ==
    /\ fn = "binomial_simulation"
    /\ \E n \in NArgs, p \in PArgs : frame = [n |-> n, p |-> p]

InitGeometric ==
    /\ fn = "geometric_simulation"
    /\ \E p \in PArgs : frame = [p |-> p]

\* rates passed to exp_simulation: the two the program uses, and two invalid ones
LambdaArgs == {SavingsRate, Half, 0, -One}

\* horizons passed to the path simulator
MonthsArgs == (-1) .. MaxMonths

\* values of norm.ppf(1 - coef_conf/2) for the confidence levels passed (line 65)
ZScores == {1, 2}

\* terminal values accumulated_saved_simulation(36) returns, in thousands
TerminalValues == {0, 12, 20}

\* uniform draws followed in the path simulator
PathDraws == {0, One \div 2, One - One \div 2^SigBits}

InitExponential ==
    /\ fn = "exp_simulation"
    /\ \E lambda_ \in LambdaArgs : frame = [lambda_ |-> lambda_]

InitPath ==
    /\ fn = "accumulated_saved_simulation"
    /\ \E months \in MonthsArgs : frame = [months |-> months]

InitInvestment ==
    /\ fn = "investment_simulation"
    /\ \E months \in MonthsArgs : frame = [months |-> months]

InitEstimator ==
    /\ fn = "accumulated_saved_average_simulation"
    /\ \E z \in ZScores : frame = [z |-> z]

InitGamma ==
    /\ fn = "gamma_3_1_simulation"
    /\ frame = <<>>

InitBinomialMass ==
    /\ fn = "binomial_mass"
    /\ \E x \in (-1) .. (MaxN + 1), n \in 0 .. MaxN, p \in Eighths :
           frame = [x |-> x, n |-> n, p |-> p]

InitGeometricMass ==
    /\ fn = "geometric_mass"
    /\ \E x \in 0 .. MaxX, p \in Eighths : frame = [x |-> x, p |-> p]

\* proposals num_sim = exp_simulation(1/2) can return: the floats of [0, 8]
\* that are multiples of 1/8
ProposalArgs == {x \in {k * (One \div 8) : k \in 0 .. 64} : Fl(x, 1) = x}

\* gamma.py line 27, the acceptance test's right-hand side on its own
InitAcceptanceThreshold ==
    /\ fn = "acceptance_threshold"
    /\ \E num_sim \in ProposalArgs : frame = [num_sim |-> num_sim]

Init ==
    /\ pc = "call"
    /\ ret = Pending
    /\ calls = <<>>
    /\ \/ InitBinomial
       \/ InitGeometric
       \/ InitBinomialMass
       \/ InitGeometricMass
       \/ InitExponential
       \/ InitPath
       \/ InitInvestment
       \/ InitEstimator
       \/ InitGamma
       \/ InitAcceptanceThreshold

(***************************************************************************)
(* binomial_simulation(n, p)                                               *)
(***************************************************************************)
\* lines 14-15: num = random(); prob = 0; the for loop starts at i = 0
BinomialEnter ==
    /\ fn = "binomial_simulation" /\ pc = "call"
    /\ \E u \in Uniform :
           frame' = [n |-> frame.n, p |-> frame.p, num |-> u, prob |-> 0, i |-> 0]
    /\ pc' = "loop"
    /\ UNCHANGED <<fn, ret, calls>>

\* lines 17-21: one iteration of the for loop, or its exhaustion
BinomialStep ==
    /\ fn = "binomial_simulation" /\ pc = "loop"
    /\ IF frame.i > frame.n
       THEN /\ pc' = "done"
            /\ ret' = ReturnedNone
            /\ UNCHANGED frame
       ELSE LET prob == Add(frame.prob, binomial_mass(frame.i, frame.n, frame.p))
            IN  IF frame.num < prob
                THEN /\ pc' = "done"
                     /\ ret' = Returned(frame.i)
                     /\ frame' = [frame EXCEPT !.prob = prob]
                ELSE /\ frame' = [frame EXCEPT !.prob = prob, !.i = frame.i + 1]
                     /\ UNCHANGED <<pc, ret>>
    /\ UNCHANGED <<fn, calls>>

(***************************************************************************)
(* geometric_simulation(p)                                                 *)
(***************************************************************************)
\* lines 13-16: num = random(); prob = 0; x = 1
GeometricEnter ==
    /\ fn = "geometric_simulation" /\ pc = "call"
    /\ \E u \in Uniform :
           frame' = [p |-> frame.p, num |-> u, prob |-> 0, x |-> 1]
    /\ pc' = "loop"
    /\ UNCHANGED <<fn, ret, calls>>

\* lines 17-21: the while test, then either the loop body or the return
GeometricStep ==
    /\ fn = "geometric_simulation" /\ pc = "loop"
    /\ IF ~(frame.num < frame.prob)
       THEN /\ frame.x < MaxX
            /\ frame' = [frame EXCEPT
                           !.prob = Add(frame.prob, geometric_mass(frame.x, frame.p)),
                           !.x = frame.x + 1]
            /\ UNCHANGED <<pc, ret>>
       ELSE /\ pc' = "done"
            /\ ret' = Returned(frame.x)
            /\ UNCHANGED frame
    /\ UNCHANGED <<fn, calls>>

(***************************************************************************)
(* exp_simulation(lambda_)                                                 *)
(***************************************************************************)
\* exponential.py lines 8, 14; the division raises when lambda_ is zero
ExponentialCall ==
    /\ fn = "exp_simulation" /\ pc = "call"
    /\ \E u \in UniformPow2 :
           IF frame.lambda_ = 0
           THEN pc' = "raised" /\ ret' = Raised("ZeroDivisionError")
           ELSE pc' = "done" /\ ret' = Returned(exp_dist_inverse(u, frame.lambda_))
    /\ UNCHANGED <<fn, frame, calls>>

(***************************************************************************)
(* accumulated_saved_simulation(months)                                    *)
(***************************************************************************)
\* line 52: accumulated = 0; the for loop starts at month = 1
PathEnter ==
    /\ fn = "accumulated_saved_simulation" /\ pc = "call"
    /\ frame' = [months |-> frame.months, accumulated |-> 0, month |-> 1]
    /\ pc' = "loop"
    /\ UNCHANGED <<fn, ret, calls>>

\* lines 54-59: one iteration of the for loop, or the return after it
PathStep ==
    /\ fn = "accumulated_saved_simulation" /\ pc = "loop"
    /\ IF frame.month <= frame.months
       THEN \E u1 \in PathDraws, u2 \in PathDraws :
              LET saved == exp_dist_inverse(u1, SavingsRate)
                  rate_of_return == beta_dist_1_6_inverse(u2)
              IN  /\ frame' = [frame EXCEPT
                                 !.accumulated =
                                     Compound(frame.accumulated, saved, rate_of_return),
                                 !.month = frame.month + 1]
                  /\ calls' = calls \o <<<<"exp_simulation", saved>>,
                                         <<"beta_dist_1_6_simulation", rate_of_return>>>>
                  /\ UNCHANGED <<pc, ret>>
       ELSE /\ pc' = "done"
            /\ ret' = Returned(frame.accumulated)
            /\ UNCHANGED <<frame, calls>>
    /\ UNCHANGED fn

(***************************************************************************)
(* investment_simulation(months): the data frame is the sequence of its    *)
(* rows.                                                                   *)
(***************************************************************************)
\* lines 30-34: df has no row; valor_acumulado = 0; the loop starts at month = 1
InvestmentEnter ==
    /\ fn = "investment_simulation" /\ pc = "call"
    /\ frame' = [months |-> frame.months, df |-> <<>>, valor_acumulado |-> 0,
                 month |-> 1]
    /\ pc' = "loop"
    /\ UNCHANGED <<fn, ret, calls>>

\* lines 34-49: one iteration of the for loop, or the return after it
InvestmentStep ==
    /\ fn = "investment_simulation" /\ pc = "loop"
    /\ IF frame.month <= frame.months
       THEN \E u1 \in PathDraws, u2 \in PathDraws :
              LET ahorrado == exp_dist_inverse(u1, SavingsRate)
                  return_ == beta_dist_1_6_inverse(u2)
                  generated == Generated(frame.valor_acumulado, ahorrado, return_)
                  valor_acumulado == Reinvest(frame.valor_acumulado, ahorrado, return_)
              IN  /\ frame' = [frame EXCEPT
                                 !.df = Append(frame.df,
                                               [month |-> frame.month,
                                                saved |-> ahorrado,
                                                return |-> return_,
                                                generated |-> generated,
                                                accumulated |-> valor_acumulado]),
                                 !.valor_acumulado = valor_acumulado,
                                 !.month = frame.month + 1]
                  /\ calls' = calls \o <<<<"exp_simulation", ahorrado>>,
                                         <<"beta_dist_1_6_simulation", return_>>>>
                  /\ UNCHANGED <<pc, ret>>
       ELSE /\ pc' = "done"
            /\ ret' = Returned(frame.df)
            /\ UNCHANGED <<frame, calls>>
    /\ UNCHANGED fn

(***************************************************************************)
(* accumulated_saved_average_simulation(confidence)                        *)
(***************************************************************************)
\* lines 62-67: accumulated = np.array([]); z; error = 10000
EstimatorEnter ==
    /\ fn = "accumulated_saved_average_simulation" /\ pc = "call"
    /\ frame' = [z |-> frame.z, accumulated |-> <<>>,
                 error |-> <<InitialError * InitialError, 1>>]
    /\ pc' = "loop"
    /\ UNCHANGED <<fn, ret, calls>>

\* lines 69-81: the while test, then either the loop body or the return
EstimatorStep ==
    /\ fn = "accumulated_saved_average_simulation" /\ pc = "loop"
    /\ IF KeepSampling(frame.error)
       THEN /\ Len(frame.accumulated) < MaxSamples
            /\ \E accumulated_final \in TerminalValues :
                 LET accumulated == Append(frame.accumulated, accumulated_final)
                 IN  /\ frame' = [z |-> frame.z,
                                  accumulated |-> accumulated,
                                  n |-> Len(accumulated),
                                  mean |-> Mean(accumulated),
                                  error |-> NextError(frame.z, accumulated, frame.error)]
                     /\ calls' = Append(calls,
                                   <<"accumulated_saved_simulation", accumulated_final>>)
            /\ UNCHANGED <<pc, ret>>
       ELSE /\ pc' = "done"
            /\ ret' = Returned(<<frame.mean, frame.error, frame.n>>)
            /\ UNCHANGED <<frame, calls>>
    /\ UNCHANGED fn

(***************************************************************************)
(* gamma_3_1_simulation()                                                  *)
(***************************************************************************)
\* line 21: c = 16*exp(-2), a local that is never assigned again (EnvelopeC)
GammaEnter ==
    /\ fn = "gamma_3_1_simulation" /\ pc = "call"
    /\ frame' = [num_sim |-> 0, U |-> 0]
    /\ pc' = "loop"
    /\ UNCHANGED <<fn, ret, calls>>

\* lines 23-28: one iteration of the while True loop
GammaStep ==
    /\ fn = "gamma_3_1_simulation" /\ pc = "loop"
    /\ \E u \in UniformPow2, U \in Uniform :
         /\ frame' = [num_sim |-> GammaProposal[u], U |-> U]
         /\ IF U < GammaThreshold[u]
            THEN pc' = "done" /\ ret' = Returned(GammaProposal[u])
            ELSE UNCHANGED <<pc, ret>>
    /\ UNCHANGED <<fn, calls>>

(***************************************************************************)
(* The mass functions called on their own.                                 *)
(***************************************************************************)
BinomialMassCall ==
    /\ fn = "binomial_mass" /\ pc = "call"
    /\ pc' = "done"
    /\ ret' = Returned(binomial_mass(frame.x, frame.n, frame.p))
    /\ UNCHANGED <<fn, frame, calls>>

GeometricMassCall ==
    /\ fn = "geometric_mass" /\ pc = "call"
    /\ pc' = "done"
    /\ ret' = Returned(geometric_mass(frame.x, frame.p))
    /\ UNCHANGED <<fn, frame, calls>>

\* gamma.py lines 21 and 27: f(num_sim)/(g(num_sim)*c) for one proposal
AcceptanceThresholdCall ==
    /\ fn = "acceptance_threshold" /\ pc = "call"
    /\ pc' = "done"
    /\ ret' = Returned(AcceptanceThreshold(frame.num_sim, EnvelopeC))
    /\ UNCHANGED <<fn, frame, calls>>

Next ==
    \/ BinomialEnter
    \/ BinomialStep
    \/ GeometricEnter
    \/ GeometricStep
    \/ BinomialMassCall
    \/ GeometricMassCall
    \/ ExponentialCall
    \/ PathEnter
    \/ PathStep
    \/ InvestmentEnter
    \/ InvestmentStep
    \/ EstimatorEnter
    \/ EstimatorStep
    \/ GammaEnter
    \/ GammaStep
    \/ AcceptanceThresholdCall

Spec == Init /\ [][Next]_vars

\* the program is sequential: a call standing in one of its two unbounded loops
\* (the acceptance-rejection loop, the estimator's loop) takes its next step
FairSpec ==
    /\ Spec
    /\ WF_vars(GammaEnter \/ GammaStep)
    /\ WF_vars(EstimatorEnter \/ EstimatorStep)

(***************************************************************************)
(* Properties.                                                             *)
(***************************************************************************)
IsEstimator == fn = "accumulated_saved_average_simulation"

IsPath == fn = "accumulated_saved_simulation"

IsBinomial == fn = "binomial_simulation"

IsGeometric == fn = "geometric_simulation"

Ended == pc \in {"done", "raised"}

\* C1: whenever the sequential estimator returns (mean, half_width,
\* sample_count), the half-width returned is not greater than the target and
\* the sample count returned is at least 2.
C1_ReturnsConverged ==
    (IsEstimator /\ pc = "done") =>
        /\ ~Exceeds(ret.val[2], ErrorTarget)
        /\ ret.val[3] >= 2

\* the estimator has returned after more than two samples
C1_Witness == IsEstimator /\ pc = "done" /\ ret.val[3] >= 3

\* the half-width after the samples xs: the initial value until two samples exist
ErrorAfter(z, xs) ==
    IF Len(xs) > 1 THEN HalfWidth(z, xs) ELSE <<InitialError * InitialError, 1>>

\* C2: the estimator starts accumulating with no sample, draws one path sample
\* per iteration while the half-width is above the target (so no sample is drawn
\* once a half-width at or below the target has been seen), and returns at the
\* first sample count whose half-width is at or below the target, reporting the
\* mean, half-width and count of exactly the samples drawn.
C2_StateMachine ==
    (IsEstimator /\ pc # "call") =>
        LET xs == frame.accumulated
            n == Len(xs)
        IN  /\ calls = [k \in 1 .. n |-> <<"accumulated_saved_simulation", xs[k]>>]
            /\ frame.error = ErrorAfter(frame.z, xs)
            /\ \A k \in 0 .. (n - 1) :
                   Exceeds(ErrorAfter(frame.z, SubSeq(xs, 1, k)), ErrorTarget)
            /\ pc = "done" =>
                   /\ ~Exceeds(ErrorAfter(frame.z, xs), ErrorTarget)
                   /\ ret = Returned(<<Mean(xs), ErrorAfter(frame.z, xs), n>>)

\* the estimator has returned at its fourth sample, with a half-width exactly on target
C2_Witness ==
    /\ IsEstimator /\ pc = "done"
    /\ ret.val[3] = 4
    /\ ret.val[2][1] = ErrorTarget * ErrorTarget * ret.val[2][2]

\* C3: both unbounded loops carry an iteration cap, so a call of the gamma(3,1)
\* sampler always ends: it returns, or it raises EstimationDivergedError.
C3_GammaCallEnds ==
    (fn = "gamma_3_1_simulation") ~>
        (pc = "done" \/ ret = Raised("EstimationDivergedError"))

InvalidArgs ==
    \/ IsBinomial /\ (frame.n < 0 \/ ~ValidP(frame.p))
    \/ IsGeometric /\ (frame.p <= 0 \/ frame.p > One)
    \/ fn = "exp_simulation" /\ frame.lambda_ <= 0
    \/ IsPath /\ frame.months < 0

\* C4: a generator or the path simulator called with a parameter outside its
\* domain ends at once with a ParameterError: it takes no other step and
\* returns nothing.
C4_ParameterError ==
    (InvalidArgs /\ pc # "call") =>
        (pc = "raised" /\ ret = Raised("ParameterError"))

RECURSIVE GeometricCumulative(_, _)
\* the mass of 1 .. x, accumulated as the walk accumulates it
GeometricCumulative(x, p) ==
    IF x < 1 THEN 0
    ELSE Add(GeometricCumulative(x - 1, p), geometric_mass(x, p))

\* C5: for 0 < p <= 1 the geometric sampler returns the smallest x >= 1 whose
\* cumulative mass exceeds the uniform draw.
C5_SmallestX ==
    (IsGeometric /\ pc = "done" /\ 0 < frame.p /\ frame.p <= One) =>
        /\ ret.val >= 1
        /\ frame.num < GeometricCumulative(ret.val, frame.p)
        /\ \A y \in 1 .. (ret.val - 1) :
               ~(frame.num < GeometricCumulative(y, frame.p))

RECURSIVE BinomialCumulative(_, _, _)
\* the mass of 0 .. x, accumulated as the walk accumulates it
BinomialCumulative(x, n, p) ==
    IF x < 0 THEN 0
    ELSE Add(BinomialCumulative(x - 1, n, p), binomial_mass(x, n, p))

\* C6: for n >= 0 and p in [0, 1] the binomial sampler returns the first x in
\* 0 .. n whose cumulative mass exceeds the uniform draw, and raises
\* NumericInconsistencyError when no cumulative mass over 0 .. n exceeds it.
C6_BinomialWalk ==
    (IsBinomial /\ Ended /\ frame.n >= 0 /\ ValidP(frame.p)) =>
        LET Over == {x \in 0 .. frame.n :
                        frame.num < BinomialCumulative(x, frame.n, frame.p)}
        IN  IF Over # {}
            THEN ret = Returned(CHOOSE x \in Over : \A y \in Over : x <= y)
            ELSE ret = Raised("NumericInconsistencyError")

RECURSIVE ClaimedFold(_, _)
\* h fold steps from zero over the logged draws, each adding the contribution
\* and then applying the return
ClaimedFold(log, h) ==
    IF h = 0 THEN 0
    ELSE Mul(Add(ClaimedFold(log, h - 1), log[2 * h - 1][2]),
             Add(One, log[2 * h][2]))

\* C7: for a horizon h >= 0 the path simulator starts from 0 and makes exactly h
\* fold steps, each drawing one exponential contribution and then one beta(1,6)
\* return rate and setting accumulated = (accumulated + contribution) *
\* (1 + return rate); for h = 0 it returns 0 and calls no generator.
C7_FoldSteps ==
    (IsPath /\ pc # "call" /\ frame.months >= 0) =>
        LET steps == frame.month - 1
        IN  /\ steps <= frame.months
            /\ Len(calls) = 2 * steps
            /\ \A k \in 1 .. steps :
                   /\ calls[2 * k - 1][1] = "exp_simulation"
                   /\ calls[2 * k][1] = "beta_dist_1_6_simulation"
            /\ frame.accumulated = ClaimedFold(calls, steps)
            /\ pc = "done" =>
                   /\ steps = frame.months
                   /\ ret = Returned(ClaimedFold(calls, frame.months))
            /\ (pc = "done" /\ frame.months = 0) =>
                   (ret = Returned(0) /\ calls = <<>>)

\* a path of at least two months has returned a positive value
C7_Witness == IsPath /\ pc = "done" /\ frame.months >= 2 /\ ret.val > 0

\* C8: with contributions >= 0 and return rates in [0, 1) the accumulated value
\* is >= 0 after every step and never decreases, so over the same draws a
\* horizon h2 gives a terminal value >= that of any shorter horizon h1.
C8_Monotone ==
    (IsPath /\ pc # "call") =>
        LET steps == frame.month - 1
        IN  /\ \A k \in 1 .. steps :
                   /\ calls[2 * k - 1][2] >= 0
                   /\ 0 <= calls[2 * k][2] /\ calls[2 * k][2] < One
            /\ frame.accumulated = PathAfter(calls, steps)
            /\ \A h1 \in 0 .. steps : \A h2 \in h1 .. steps :
                   /\ 0 <= PathAfter(calls, h1)
                   /\ PathAfter(calls, h1) <= PathAfter(calls, h2)
            /\ pc = "done" => ret.val >= 0

\* two steps have been made and the second one increased the accumulated value
C8_Witness ==
    /\ IsPath /\ pc # "call" /\ frame.month - 1 >= 2
    /\ PathAfter(calls, 1) < PathAfter(calls, 2)

\* C9: for 0 < p <= 1 the geometric walk terminates: it is never at a loop test
\* where the cumulative mass has not exceeded the draw and the next mass no longer
\* increases it (the masses do not grow with x, so from there the cumulative mass
\* stays where it is and the loop cannot end).
C9_GeometricTerminates ==
    (/\ IsGeometric /\ pc = "loop"
     /\ 0 < frame.p /\ frame.p <= One
     /\ Add(frame.prob, geometric_mass(frame.x, frame.p)) = frame.prob)
        => frame.num < frame.prob

\* p in eighths
P8(p) == p \div (One \div 8)

\* b^k for integers b >= 0, k >= 0, with 0^0 = 1
IntPow(b, k) == IF k = 0 THEN 1 ELSE b^k

\* C(n,x) p^x (1-p)^(n-x) as the fraction ExactMassNum / 8^n, for p in eighths
ExactMassNum(x, n, p) == comb(n, x) * IntPow(P8(p), x) * IntPow(8 - P8(p), n - x)

RECURSIVE MassSum(_, _, _)
\* the sum of the masses of 0 .. x
MassSum(x, n, p) ==
    IF x < 0 THEN 0 ELSE MassSum(x - 1, n, p) + binomial_mass(x, n, p)

\* the relative tolerance 2^-(SigBits-1) of a value v
Tolerance(v) == v \div 2^(SigBits - 1)

IsThreshold == fn = "acceptance_threshold"

\* C11 as stated: the envelope constant c = 16*e^-2 upper-bounds f(x)/g(x) for
\* every proposal x >= 0, so the acceptance threshold f(x)/(g(x)*c) that U is
\* compared with is always in [0, 1].
C11_ThresholdInUnitInterval ==
    /\ (IsThreshold /\ pc = "done") => (0 <= ret.val /\ ret.val <= One)
    /\ (fn = "gamma_3_1_simulation") =>
           \A u \in UniformPow2 : 0 <= GammaThreshold[u] /\ GammaThreshold[u] <= One

\* C11, amended: the threshold is computed in floating point, so it is in [0, 1]
\* up to rounding: it is never negative and exceeds 1 by at most one unit in the
\* last place, and f(x) exceeds the float g(x)*c by no more than that.
C11_ThresholdWithinRounding ==
    /\ (IsThreshold /\ pc = "done") =>
           /\ 0 <= ret.val /\ ret.val <= One + Tolerance(One)
           /\ f(frame.num_sim)
                  <= Mul(g(frame.num_sim), EnvelopeC)
                         + Tolerance(Mul(g(frame.num_sim), EnvelopeC))
    /\ (fn = "gamma_3_1_simulation") =>
           \A u \in UniformPow2 :
               0 <= GammaThreshold[u] /\ GammaThreshold[u] <= One + Tolerance(One)

\* the threshold has been computed at x = 4, where f/g is largest
C11_Witness ==
    /\ IsThreshold /\ pc = "done"
    /\ frame.num_sim = IntToFloat(4)
    /\ ret.val >= One - Tolerance(One)

\* line 67: the initial half-width, as the estimator holds it
Sentinel == <<InitialError * InitialError, 1>>

\* C12: within one run of the sequential estimator the sample count n never
\* decreases and grows by exactly one per loop iteration, with one path
\* simulation per iteration; the half-width formula z*s/sqrt(n) is evaluated only
\* when n > 1 (never with a zero divisor), and at n <= 1 the half-width keeps its
\* initial value, which is greater than the target.
C12_CountAndSentinel ==
    /\ []((IsEstimator /\ pc # "call") =>
            LET n == Len(frame.accumulated)
            IN  /\ Len(calls) = n
                /\ n >= 1 => frame.n = n
                /\ n <= 1 => (frame.error = Sentinel /\ Exceeds(frame.error, ErrorTarget))
                /\ n > 1 => (frame.error = HalfWidth(frame.z, frame.accumulated)
                             /\ frame.error[2] > 0))
    /\ [][(IsEstimator /\ pc = "loop" /\ frame' # frame) =>
            /\ Len(frame'.accumulated) = Len(frame.accumulated) + 1
            /\ SubSeq(frame'.accumulated, 1, Len(frame.accumulated)) = frame.accumulated
            /\ Len(calls') = Len(calls) + 1]_vars

\* the estimator holds one sample and still the initial half-width
C12_Witness ==
    /\ IsEstimator /\ pc = "loop"
    /\ Len(frame.accumulated) = 1
    /\ frame.error = Sentinel

IsInvestment == fn = "investment_simulation"

\* the accumulated value of the row before row k of the data frame df
PreviousAccumulated(df, k) == IF k = 1 THEN 0 ELSE df[k - 1].accumulated

\* the rows built so far are numbered 1, 2, ..., record the draws in the order
\* they were made, and each has generated = (previous accumulated + saved) * return
RowsWellFormed(df) ==
    /\ Len(calls) = 2 * Len(df)
    /\ \A k \in 1 .. Len(df) :
           /\ df[k].month = k
           /\ df[k].saved = calls[2 * k - 1][2]
           /\ df[k].return = calls[2 * k][2]
           /\ df[k].generated =
                  Mul(Add(PreviousAccumulated(df, k), df[k].saved), df[k].return)

\* the scalar simulator, run over the same draws, ends on the last row's value
AgreesWithScalar(df) ==
    /\ \A k \in 1 .. Len(df) : df[k].accumulated = PathAfter(calls, k)
    /\ Len(df) = 0 => PathAfter(calls, 0) = 0

\* previous accumulated + saved + generated, as floats
RowSum(df, k) ==
    Add(Add(PreviousAccumulated(df, k), df[k].saved), df[k].generated)

\* C13 as stated: for the same draws and the same number of months the trace
\* builder and the scalar path simulator agree: the trace has exactly one row
\* per month numbered 1..months, each row has accumulated = previous accumulated
\* + saved + generated with generated = (previous accumulated + saved) * return,
\* and the last row's accumulated is the scalar simulator's terminal value.
C13_TraceAgrees ==
    (IsInvestment /\ pc # "call") =>
        /\ RowsWellFormed(frame.df)
        /\ AgreesWithScalar(frame.df)
        /\ \A k \in 1 .. Len(frame.df) :
               frame.df[k].accumulated = RowSum(frame.df, k)
        /\ pc = "done" =>
               /\ ret = Returned(frame.df)
               /\ Len(frame.df) = (IF frame.months > 0 THEN frame.months ELSE 0)

\* C13, amended: as C13, except that a row's accumulated, computed as
\* (previous accumulated + saved) * (1 + return), equals previous accumulated +
\* saved + generated only up to floating-point rounding.
C13_TraceAgreesWithinRounding ==
    (IsInvestment /\ pc # "call") =>
        /\ RowsWellFormed(frame.df)
        /\ AgreesWithScalar(frame.df)
        /\ \A k \in 1 .. Len(frame.df) :
               Abs(frame.df[k].accumulated - RowSum(frame.df, k))
                   <= Tolerance(frame.df[k].accumulated)
        /\ pc = "done" =>
               /\ ret = Returned(frame.df)
               /\ Len(frame.df) = (IF frame.months > 0 THEN frame.months ELSE 0)

\* the trace builder has returned a trace of two or more months with a positive
\* return in its last month
C13_Witness ==
    /\ IsInvestment /\ pc = "done"
    /\ Len(ret.val) >= 2
    /\ ret.val[Len(ret.val)].generated > 0

====
